---- MODULE Spec2Model ----
(***************************************************************************)
(* Hebrew calendar service of the synagogue auction platform:              *)
(*   - the auction restriction rules (getAuctionRestrictions,              *)
(*     isAuctionPermitted, isTimeBetween) as operators over the flags of   *)
(*     an EnhancedHebrewDate, the Zmanim of the day and an instant;        *)
(*   - the HebrewCalendarService facade with its memoization cache, the    *)
(*     setTimeout expiry callbacks, clearCache and updateConfig.           *)
(* Instants are minutes on the process-local time line; strings that the   *)
(* code compares or searches are sequences of UTF-16 code units.           *)
(***************************************************************************)
EXTENDS Integers, Sequences, FiniteSets, TLC

VARIABLES
    enhancedIn,      \* rules: the EnhancedHebrewDate flags handed to the rules
    zmanimIn,        \* rules: the Zmanim of the day, or the error getZmanim threw
    dateTimeIn,      \* rules: the instant asked about
    liturgyIn,       \* rules: the clock interval the liturgical landmarks denote
    restrictionsOut, \* rules: value of getAuctionRestrictions, NotCalled before
    permittedOut,    \* rules: value of isAuctionPermitted, NotCalled before
    config,          \* service: this.config
    cache,           \* service: this.cache, key -> [value, written]
    timers,          \* service: pending setTimeout callbacks, [key, due, n]
    now,             \* service: the clock, in TTL units
    ncalls,          \* service: number of public calls made so far
    lastCall,        \* service: the last public call, [op, date, loc, patch]
    lastRet,         \* service: what the last public call returned or threw
    lastHit,         \* service: the cache entry that answered the last call
    HebrewCalendar,  \* utilities: what the name imported from '@hebcal/hdate' is bound to
    utilIn,          \* utilities: the function called and its arguments
    utilOut,         \* utilities: what the call returned or threw, NotCalled before
    utilBack,        \* utilities: the conversion back of a converted date, NotCalled before
    multipliers,     \* gematria: the array COMMON_MULTIPLIERS as it is in memory
    gematriaCalls    \* gematria: number of calls made in a sequence of calls

rulesVars == <<enhancedIn, zmanimIn, dateTimeIn, liturgyIn, restrictionsOut, permittedOut>>
serviceVars == <<config, cache, timers, now, ncalls, lastCall, lastRet, lastHit>>
utilVars == <<HebrewCalendar, utilIn, utilOut, utilBack, multipliers, gematriaCalls>>
vars == <<enhancedIn, zmanimIn, dateTimeIn, liturgyIn, restrictionsOut, permittedOut,
          config, cache, timers, now, ncalls, lastCall, lastRet, lastHit,
          HebrewCalendar, utilIn, utilOut, utilBack, multipliers, gematriaCalls>>

----------------------------------------------------------------------------
(* Dates and strings *)

\* a Date whose time value is NaN
InvalidDate == -1

MinutesPerDay == 1440

\* code units of the characters the code looks for or produces
Colon == 58
Digit(d) == 48 + d

\* "Invalid Date".slice(0, 5)
StrInval == <<73, 110, 118, 97, 108>>
\* 'shacharit'
StrShacharit == <<115, 104, 97, 99, 104, 97, 114, 105, 116>>
\* 'after_hallel'
StrAfterHallel == <<97, 102, 116, 101, 114, 95, 104, 97, 108, 108, 101, 108>>

\* minute of the local day of an instant
ClockOf(t) == t % MinutesPerDay

\* date.toTimeString().slice(0, 5): "HH:MM" of the local clock time
toTimeString5(t) ==
    IF t = InvalidDate THEN StrInval
    ELSE LET h == ClockOf(t) \div 60
             m == ClockOf(t) % 60
         IN <<Digit(h \div 10), Digit(h % 10), Colon, Digit(m \div 10), Digit(m % 10)>>

\* String.prototype.includes for a single character
includes(s, c) == \E i \in DOMAIN s : s[i] = c

\* a <= b on strings: lexicographic order of the code units
RECURSIVE StrLeq(_, _)
StrLeq(a, b) ==
    IF a = <<>> THEN TRUE
    ELSE IF b = <<>> THEN FALSE
    ELSE IF Head(a) < Head(b) THEN TRUE
    ELSE IF Head(a) > Head(b) THEN FALSE
    ELSE StrLeq(Tail(a), Tail(b))

\* a thrown HebrewCalendarError, by its code
Thrown(code) == [error |-> code]
IsError(v) == "error" \in DOMAIN v

NotCalled == [notCalled |-> TRUE]
WasCalled(v) == "notCalled" \notin DOMAIN v

----------------------------------------------------------------------------
(* Date conversion utilities *)

\* `ones` of toHebrewNumeral, entry i of the array at index i + 1
ones ==
    <<<<>>,
      <<"א", "׳">>,
      <<"ב", "׳">>,
      <<"ג", "׳">>,
      <<"ד", "׳">>,
      <<"ה", "׳">>,
      <<"ו", "׳">>,
      <<"ז", "׳">>,
      <<"ח", "׳">>,
      <<"ט", "׳">>>>

\* `teens` with 15 and 16 spelled additively, as yod-he and yod-vav
teensAdditive ==
    <<<<"י", "׳">>,
      <<"י", "״", "א">>,
      <<"י", "״", "ב">>,
      <<"י", "״", "ג">>,
      <<"י", "״", "ד">>,
      <<"י", "״", "ה">>,
      <<"י", "״", "ו">>,
      <<"י", "״", "ז">>,
      <<"י", "״", "ח">>,
      <<"י", "״", "ט">>>>

\* `teens` of toHebrewNumeral, entry i of the array at index i + 1
teens ==
    <<<<"י", "׳">>,
      <<"י", "״", "א">>,
      <<"י", "״", "ב">>,
      <<"י", "״", "ג">>,
      <<"י", "״", "ד">>,
      <<"ט", "״", "ו">>,
      <<"ט", "״", "ז">>,
      <<"י", "״", "ז">>,
      <<"י", "״", "ח">>,
      <<"י", "״", "ט">>>>

\* `tens` of toHebrewNumeral, entry i of the array at index i + 1
tens ==
    <<<<>>,
      <<>>,
      <<"כ", "׳">>,
      <<"ל", "׳">>,
      <<"מ", "׳">>,
      <<"נ", "׳">>,
      <<"ס", "׳">>,
      <<"ע", "׳">>,
      <<"פ", "׳">>,
      <<"צ", "׳">>>>

\* `hundreds` of toHebrewNumeral, entry i of the array at index i + 1
hundreds ==
    <<<<>>,
      <<"ק", "׳">>,
      <<"ר", "׳">>,
      <<"ש", "׳">>,
      <<"ת", "׳">>,
      <<"ת", "ק", "׳">>,
      <<"ת", "ר", "׳">>,
      <<"ת", "ש", "׳">>,
      <<"ת", "ת", "׳">>,
      <<"ת", "ת", "ק", "׳">>>>

HEBREW_MONTHS ==
    <<[name |-> "תִּשְׁרֵי", nameEnglish |-> "Tishrei"],
      [name |-> "מַרְחֶשְׁוָן", nameEnglish |-> "Marcheshvan"],
      [name |-> "כִּסְלֵו", nameEnglish |-> "Kislev"],
      [name |-> "טֵבֵת", nameEnglish |-> "Tevet"],
      [name |-> "שְׁבָט", nameEnglish |-> "Shevat"],
      [name |-> "אֲדָר", nameEnglish |-> "Adar"],
      [name |-> "נִיסָן", nameEnglish |-> "Nissan"],
      [name |-> "אִיָּר", nameEnglish |-> "Iyar"],
      [name |-> "סִיוָן", nameEnglish |-> "Sivan"],
      [name |-> "תַּמּוּז", nameEnglish |-> "Tammuz"],
      [name |-> "אָב", nameEnglish |-> "Av"],
      [name |-> "אֱלוּל", nameEnglish |-> "Elul"],
      [name |-> "אֲדָר ב׳", nameEnglish |-> "Adar II"]>>

\* HEBREW_DAYS, entry d at index d + 1
HEBREW_DAYS ==
    <<"רִאשׁוֹן", "שֵׁנִי", "שְׁלִישִׁי", "רְבִיעִי", "חֲמִישִׁי", "שִׁשִּׁי", "שַׁבָּת">>

Geresh == "׳"
Gershayim == "״"

\* s.slice(0, -1)
DropLast(s) == IF s = <<>> THEN s ELSE SubSeq(s, 1, Len(s) - 1)

\* the letters and marks toHebrewNumeral builds for 1..999
hebrewNumeralText(num) ==
    IF num = 15 THEN <<"ט", Gershayim, "ו">>
    ELSE IF num = 16 THEN <<"ט", Gershayim, "ז">>
    ELSE LET r1 == IF num >= 100 THEN hundreds[(num \div 100) + 1] ELSE <<>>
             n1 == IF num >= 100 THEN num % 100 ELSE num
         IN IF n1 >= 20
            THEN LET r2 == r1 \o tens[(n1 \div 10) + 1]
                     n2 == n1 % 10
                 IN IF n2 > 0 THEN DropLast(r2) \o <<Gershayim>> \o ones[n2 + 1] ELSE r2
            ELSE IF n1 >= 10 THEN r1 \o teens[(n1 - 10) + 1]
            ELSE IF n1 > 0 THEN r1 \o ones[n1 + 1]
            ELSE r1

\* toHebrewNumeral without the lower limit of its range test
toHebrewNumeralNoLowerLimit(num) ==
    IF num > 999 THEN Thrown("CALCULATION_ERROR")
    ELSE [value |-> hebrewNumeralText(num)]

\* toHebrewNumeral: the string as a sequence of characters, or the error it throws
toHebrewNumeral(num) ==
    IF num = 15 \/ num = 16 THEN [value |-> hebrewNumeralText(num)]
    ELSE IF num < 1 \/ num > 999 THEN Thrown("CALCULATION_ERROR")
    ELSE [value |-> hebrewNumeralText(num)]

formatHebrewYear(year) == toHebrewNumeral(year % 1000)

\* the local calendar day 2023-09-16 (1 Tishrei 5784, a Saturday) is day 0
EpochWeekday == 6
EpochHebrewYear == 5784
\* month numbers of the HDate class: Nisan is 1, Tishrei 7, Cheshvan 8
HDateTishrei == 7

\* date.toDateString(): the local calendar day of the instant
toDateString(t) == t \div MinutesPerDay

\* offset in minutes from the local clock to UTC
UtcOffset == 240

\* date.toISOString(): the instant in UTC, one string per instant
toISOString(t) == t + UtcOffset

\* date.getDay()
getDay(t) == (EpochWeekday + toDateString(t)) % 7

\* month numbers of the HDate class (the `months` enumeration)
NISAN == 1
IYYAR == 2
TAMUZ == 4
ELUL == 6
CHESHVAN == 8
KISLEV == 9
TEVET == 10
ADAR_I == 12
ADAR_II == 13

\* R.D. day number of the day before 1 Tishrei of Hebrew year 1
HEBREW_EPOCH == -1373428
\* R.D. day number of the local calendar day 2023-09-16, day 0 of the time line
EpochAbs == 738779

\* leap years of the library: the Metonic rule
isLeapYear(year) == (1 + year * 7) % 19 < 7

monthsInYear(year) == IF isLeapYear(year) THEN 13 ELSE 12

\* the dehiyyot: the day count moved past the excluded weekdays
postponed(day, parts, year) ==
    IF \/ parts >= 19440
       \/ (day % 7 = 2 /\ parts >= 9924 /\ ~isLeapYear(year))
       \/ (day % 7 = 1 /\ parts >= 16789 /\ isLeapYear(year - 1))
    THEN day + 1
    ELSE day

notOnAdu(altDay) == IF altDay % 7 \in {0, 3, 5} THEN altDay + 1 ELSE altDay

moladDay(mElapsed, pElapsed, hElapsed, year) ==
    notOnAdu(postponed(1 + 29 * mElapsed + (hElapsed \div 24),
                       (pElapsed % 1080) + 1080 * (hElapsed % 24),
                       year))

moladHours(mElapsed, pElapsed, year) ==
    moladDay(mElapsed, pElapsed,
             5 + 12 * mElapsed + 793 * (mElapsed \div 1080) + (pElapsed \div 1080),
             year)

moladParts(mElapsed, year) == moladHours(mElapsed, 204 + 793 * (mElapsed % 1080), year)

\* days from the epoch to 1 Tishrei of the year
elapsedDays(year) ==
    moladParts(235 * ((year - 1) \div 19) + 12 * ((year - 1) % 19)
                   + ((((year - 1) % 19) * 7 + 1) \div 19),
               year)

daysInYear(year) == elapsedDays(year + 1) - elapsedDays(year)

longCheshvan(year) == daysInYear(year) % 10 = 5
shortKislev(year) == daysInYear(year) % 10 = 3

\* length of a month of the library's numbering
daysInMonth(month, year) ==
    IF month \in {IYYAR, TAMUZ, ELUL, TEVET, ADAR_II} THEN 29
    ELSE IF month = ADAR_I /\ ~isLeapYear(year) THEN 29
    ELSE IF month = CHESHVAN /\ ~longCheshvan(year) THEN 29
    ELSE IF month = KISLEV /\ shortKislev(year) THEN 29
    ELSE 30

\* the days of the months first..last of the year
RECURSIVE sumDaysInMonths(_, _, _)
sumDaysInMonths(first, last, year) ==
    IF first > last THEN 0
    ELSE daysInMonth(first, year) + sumDaysInMonths(first + 1, last, year)

\* R.D. day number of a date of the library's numbering
hebrew2abs(year, month, day) ==
    HEBREW_EPOCH + elapsedDays(year) + day - 1
        + (IF month < HDateTishrei
           THEN sumDaysInMonths(HDateTishrei, monthsInYear(year), year)
                    + sumDaysInMonths(NISAN, month - 1, year)
           ELSE sumDaysInMonths(HDateTishrei, month - 1, year))

\* the last year whose 1 Tishrei is not after the day
RECURSIVE yearContaining(_, _)
yearContaining(abs, year) ==
    IF HEBREW_EPOCH + elapsedDays(year + 1) <= abs
    THEN yearContaining(abs, year + 1)
    ELSE year

\* the first month, counted from `month`, whose last day is not before the day
RECURSIVE monthContaining(_, _, _)
monthContaining(abs, year, month) ==
    IF abs > hebrew2abs(year, month, daysInMonth(month, year))
    THEN monthContaining(abs, year, month + 1)
    ELSE month

dateInMonth(abs, year, month) ==
    [dd |-> 1 + abs - hebrew2abs(year, month, 1), mm |-> month, yy |-> year]

dateInYear(abs, year) ==
    dateInMonth(abs, year,
                monthContaining(abs, year,
                    IF abs < hebrew2abs(year, NISAN, 1) THEN HDateTishrei ELSE NISAN))

\* the Hebrew date of an R.D. day number; the search for the year starts from
\* an estimate that is never above it
abs2hebrew(abs) == dateInYear(abs, yearContaining(abs, (abs - HEBREW_EPOCH) \div 366))

\* instants handed to the service: Saturday 2023-09-16 (1 Tishrei) 08:00 and
\* 20:00, Tuesday 2023-09-19 (4 Tishrei) 07:00, Sunday 2023-10-15 (30 Tishrei)
\* 07:00
Dates == {480, 1200, 4740, 42180}

\* the Hebrew dates of those instants, computed once
HDateOfDates == [t \in Dates |-> abs2hebrew(EpochAbs + toDateString(t))]

\* new HDate(date): the Hebrew date of the local calendar day of the instant
HDate(t) ==
    IF t \in Dates THEN HDateOfDates[t] ELSE abs2hebrew(EpochAbs + toDateString(t))

\* the constructor's normalisation of a month or a day out of range
RECURSIVE fix(_)
fix(h) ==
    IF h.mm = ADAR_II /\ ~isLeapYear(h.yy) THEN fix([h EXCEPT !.mm = ADAR_I])
    ELSE IF h.mm < 1
         THEN fix([h EXCEPT !.mm = h.mm + monthsInYear(h.yy), !.yy = h.yy - 1])
    ELSE IF h.mm > monthsInYear(h.yy)
         THEN fix([h EXCEPT !.mm = h.mm - monthsInYear(h.yy), !.yy = h.yy + 1])
    ELSE IF h.dd < 1
         THEN fix([dd |-> h.dd + daysInMonth(h.mm,
                                    IF h.mm = HDateTishrei THEN h.yy - 1 ELSE h.yy),
                   mm |-> h.mm - 1,
                   yy |-> IF h.mm = HDateTishrei THEN h.yy - 1 ELSE h.yy])
    ELSE IF h.dd > daysInMonth(h.mm, h.yy)
         THEN fix([dd |-> h.dd - daysInMonth(h.mm, IF h.mm = ELUL THEN h.yy + 1 ELSE h.yy),
                   mm |-> h.mm + 1,
                   yy |-> IF h.mm = ELUL THEN h.yy + 1 ELSE h.yy])
    ELSE h

gregOf(h) == (hebrew2abs(h.yy, h.mm, h.dd) - EpochAbs) * MinutesPerDay

\* new HDate(day, month, year).greg(): local midnight of the normalised date
HDateGreg(day, month, year) == gregOf(fix([dd |-> day, mm |-> month, yy |-> year]))

\* the HebrewDate both conversions build from day, month number and year
hebrewDateOf(hebrewDay, hebrewMonth, hebrewYear, gregorianDate) ==
    IF hebrewMonth \notin DOMAIN HEBREW_MONTHS
    THEN [success |-> FALSE, error |-> "Invalid Hebrew month"]
    ELSE LET monthInfo == HEBREW_MONTHS[hebrewMonth]
             dayStr == toHebrewNumeral(hebrewDay)
             yearStr == formatHebrewYear(hebrewYear)
         IN IF IsError(dayStr) \/ IsError(yearStr)
            THEN [success |-> FALSE, error |-> "out of range for Hebrew numeral conversion"]
            ELSE [success |-> TRUE,
                  hebrewDate |->
                      [hebrewDateString |->
                           dayStr.value \o <<" ", monthInfo.name, " ">> \o yearStr.value,
                       hebrewYear |-> hebrewYear,
                       hebrewMonth |-> monthInfo.name,
                       hebrewMonthName |-> monthInfo.name,
                       hebrewDay |-> hebrewDay,
                       gregorianDate |-> gregorianDate]]

\* gregorianToHebrew of date-conversion: a ConversionResult
gregorianToHebrewResult(date) ==
    LET hDate == HDate(date)
    IN hebrewDateOf(hDate.dd, hDate.mm, hDate.yy, date)

\* hebrewToGregorian of date-conversion: a ConversionResult
hebrewToGregorianResult(hebrewDay, hebrewMonth, hebrewYear) ==
    LET gregorianDate == HDateGreg(hebrewDay, hebrewMonth, hebrewYear)
        r == hebrewDateOf(hebrewDay, hebrewMonth, hebrewYear, gregorianDate)
    IN IF r.success THEN [success |-> TRUE, hebrewDate |-> r.hebrewDate,
                          gregorianDate |-> gregorianDate]
       ELSE r

\* the EnhancedHebrewDate built from the base HebrewDate b of a successful conversion
enhancedDateOf(b, date, dayOfWeek) ==
    [hebrewDateString |-> b.hebrewDateString,
     hebrewYear |-> b.hebrewYear,
     hebrewMonth |-> b.hebrewMonth,
     hebrewMonthName |-> b.hebrewMonthName,
     hebrewDay |-> b.hebrewDay,
     gregorianDate |-> b.gregorianDate,
     isShabbat |-> (dayOfWeek = 6),
     isYomTov |-> FALSE,
     isRoshChodesh |-> (HDate(date).dd = 1 \/ HDate(date).dd = 30),
     isCholedMoed |-> FALSE,
     isFastDay |-> FALSE,
     dayOfWeek |-> dayOfWeek,
     dayOfWeekHebrew |-> HEBREW_DAYS[dayOfWeek + 1],
     parsha |-> "null",
     parshaHebrew |-> "null"]

\* what getEnhancedHebrewDate makes of the ConversionResult
enhancedFromConversion(conversionResult, date) ==
    IF ~conversionResult.success THEN Thrown("CONVERSION_ERROR")
    ELSE enhancedDateOf(conversionResult.hebrewDate, date, getDay(date))

\* getEnhancedHebrewDate: the EnhancedHebrewDate, or the error it throws
getEnhancedHebrewDate(date) == enhancedFromConversion(gregorianToHebrewResult(date), date)

\* the name HebrewCalendar that date-conversion imports from '@hebcal/hdate': a
\* build binds it to an object offering isLeapYear and daysInMonth as the HDate
\* class does, or leaves it undefined, and then a call through it throws
HebrewCalendarBindings == {"class", "undefined"}

\* isHebrewLeapYear: the value, or the TypeError of a call through undefined
isHebrewLeapYear(binding, hebrewYear) ==
    IF binding = "undefined" THEN Thrown("TypeError")
    ELSE [value |-> isLeapYear(hebrewYear)]

getDaysInHebrewMonth(binding, hebrewMonth, hebrewYear) ==
    IF binding = "undefined" THEN Thrown("TypeError")
    ELSE [value |-> daysInMonth(hebrewMonth, hebrewYear)]

\* the comparison of isValidHebrewDate with the month's length; a throw is caught
dayWithin(day, daysInMonthResult) ==
    IF IsError(daysInMonthResult) THEN FALSE ELSE day <= daysInMonthResult.value

\* the Adar II test of isValidHebrewDate; a throw is caught
adarIIMissing(month, leapResult) ==
    month = 13 /\ (IsError(leapResult) \/ ~leapResult.value)

isValidHebrewDate(binding, day, month, year) ==
    IF day < 1 \/ month < 1 \/ month > 13 \/ year < 1 THEN FALSE
    ELSE IF adarIIMissing(month, isHebrewLeapYear(binding, year)) THEN FALSE
    ELSE dayWithin(day, getDaysInHebrewMonth(binding, month, year))

----------------------------------------------------------------------------
(* Gematria; a text is a sequence of UTF-16 code units *)

\* GEMATRIA_VALUES: pairs of code unit and value
GEMATRIA_VALUES ==
    {<<1488, 1>>, <<1489, 2>>, <<1490, 3>>, <<1491, 4>>, <<1492, 5>>,
     <<1493, 6>>, <<1494, 7>>, <<1495, 8>>, <<1496, 9>>, <<1497, 10>>,
     <<1499, 20>>, <<1500, 30>>, <<1502, 40>>, <<1504, 50>>, <<1505, 60>>,
     <<1506, 70>>, <<1508, 80>>, <<1510, 90>>, <<1511, 100>>, <<1512, 200>>,
     <<1513, 300>>, <<1514, 400>>, <<1498, 20>>, <<1501, 40>>, <<1503, 50>>,
     <<1507, 80>>, <<1509, 90>>}

\* LARGE_GEMATRIA_FINALS
LARGE_GEMATRIA_FINALS == {<<1498, 500>>, <<1501, 600>>, <<1503, 700>>, <<1507, 800>>, <<1509, 900>>}

\* hebrewAlphabet of calculateOrdinalGematria
hebrewAlphabet == <<1488, 1489, 1490, 1491, 1492, 1493, 1494, 1495, 1496, 1497, 1499, 1500, 1502, 1504, 1505, 1506, 1508, 1510, 1511, 1512, 1513, 1514>>

\* finalMap of calculateOrdinalGematria: final form and the letter whose index it takes
finalMap == {<<1498, 1499>>, <<1501, 1502>>, <<1503, 1504>>, <<1507, 1508>>, <<1509, 1510>>}

COMMON_MULTIPLIERS ==
    <<[nameEnglish |-> "Chai", nameHebrew |-> "חי", value |-> 18,
       significance |-> "Life - most popular multiplier in Jewish giving", commonUse |-> TRUE],
      [nameEnglish |-> "Double Chai", nameHebrew |-> "חי כפול", value |-> 36,
       significance |-> "Double life - double blessing", commonUse |-> TRUE],
      [nameEnglish |-> "Shalom", nameHebrew |-> "שלום", value |-> 376,
       significance |-> "Peace - wholeness and completion", commonUse |-> FALSE],
      [nameEnglish |-> "Tzedakah", nameHebrew |-> "צדקה", value |-> 199,
       significance |-> "Charity/righteousness - core Jewish value", commonUse |-> TRUE],
      [nameEnglish |-> "Mitzvah", nameHebrew |-> "מצוה", value |-> 141,
       significance |-> "Commandment - good deed", commonUse |-> TRUE],
      [nameEnglish |-> "Yeshuah", nameHebrew |-> "ישועה", value |-> 391,
       significance |-> "Salvation - divine rescue", commonUse |-> FALSE],
      [nameEnglish |-> "Bracha", nameHebrew |-> "ברכה", value |-> 227,
       significance |-> "Blessing - divine favor", commonUse |-> TRUE],
      [nameEnglish |-> "Kedushah", nameHebrew |-> "קדושה", value |-> 415,
       significance |-> "Holiness - sanctity", commonUse |-> FALSE],
      [nameEnglish |-> "Ahavah", nameHebrew |-> "אהבה", value |-> 13,
       significance |-> "Love - divine and human connection", commonUse |-> TRUE],
      [nameEnglish |-> "Emunah", nameHebrew |-> "אמונה", value |-> 102,
       significance |-> "Faith - trust in divine providence", commonUse |-> TRUE]>>

\* significanceMap of getGematriaSignificance
significanceMap ==
    {<<1, "Unity, God's oneness (Echad)">>,
     <<7, "Completion, perfection (Shabbat)">>,
     <<8, "Renewal, circumcision (Brit Milah)">>,
     <<10, "Completion of digits, minyan">>,
     <<13, "Love (Ahavah), unity with God (Echad)">>,
     <<18, "Life (Chai) - most blessed number">>,
     <<26, "God's name (YHVH)">>,
     <<36, "Double Chai, double life">>,
     <<40, "Transformation, testing period">>,
     <<50, "Jubilee, freedom">>,
     <<72, "Mystical name of God">>,
     <<100, "Completeness, perfection">>,
     <<120, "Full life span (Moses' age)">>,
     <<180, "Ten times Chai">>,
     <<248, "Positive commandments">>,
     <<365, "Negative commandments">>,
     <<613, "Total commandments (Taryag Mitzvot)">>}

\* key in table, for a JavaScript object given as pairs
has(table, key) == \E e \in table : e[1] = key

\* table[key]: the value, or -1 for undefined
lookup(table, key) ==
    IF has(table, key) THEN (CHOOSE e \in table : e[1] = key)[2] ELSE -1

\* the character class of the first replace: ֐-ֽ, ֿ-ׇ, ׳, ״
isNikudOrPunctuation(c) ==
    \/ (c >= 1424 /\ c <= 1469)
    \/ (c >= 1471 /\ c <= 1479)
    \/ c = 1523
    \/ c = 1524

\* the character class kept by the second replace: א-ת
isHebrewLetterUnit(c) == c >= 1488 /\ c <= 1514

\* a cleaning that keeps every code unit from alef to the last of the Hebrew block
cleanTextWholeBlock(text) ==
    SelectSeq(SelectSeq(text, LAMBDA c : ~isNikudOrPunctuation(c)),
              LAMBDA c : c >= 1488 /\ c <= 1524)

cleanText(text) ==
    SelectSeq(SelectSeq(text, LAMBDA c : ~isNikudOrPunctuation(c)), isHebrewLetterUnit)

\* the sum with every final form at its large value
RECURSIVE standardGematriaLargeFinals(_)
standardGematriaLargeFinals(letters) ==
    IF letters = <<>> THEN 0
    ELSE (IF has(LARGE_GEMATRIA_FINALS, Head(letters))
          THEN lookup(LARGE_GEMATRIA_FINALS, Head(letters))
          ELSE lookup(GEMATRIA_VALUES, Head(letters)))
         + standardGematriaLargeFinals(Tail(letters))

\* letters.reduce((sum, letter) => sum + GEMATRIA_VALUES[letter], 0); every code
\* unit cleanText keeps is a key of the table
RECURSIVE calculateStandardGematria(_)
calculateStandardGematria(letters) ==
    IF letters = <<>> THEN 0
    ELSE lookup(GEMATRIA_VALUES, Head(letters)) + calculateStandardGematria(Tail(letters))

\* a final form counts its large value only as the last letter
RECURSIVE calculateLargeGematria(_)
calculateLargeGematria(letters) ==
    IF letters = <<>> THEN 0
    ELSE (IF has(LARGE_GEMATRIA_FINALS, Head(letters)) /\ Len(letters) = 1
          THEN lookup(LARGE_GEMATRIA_FINALS, Head(letters))
          ELSE lookup(GEMATRIA_VALUES, Head(letters)))
         + calculateLargeGematria(Tail(letters))

\* the sum of the decimal digits
RECURSIVE digitSum(_)
digitSum(num) == IF num < 10 THEN num ELSE (num % 10) + digitSum(num \div 10)

\* one pass of the digit sum, an if where the code has a while
reduceToSingleDigitOnce(num) == IF num > 9 THEN digitSum(num) ELSE num

RECURSIVE reduceToSingleDigit(_)
reduceToSingleDigit(num) == IF num > 9 THEN reduceToSingleDigit(digitSum(num)) ELSE num

RECURSIVE calculateSmallGematria(_)
calculateSmallGematria(letters) ==
    IF letters = <<>> THEN 0
    ELSE reduceToSingleDigit(lookup(GEMATRIA_VALUES, Head(letters)))
         + calculateSmallGematria(Tail(letters))

\* hebrewAlphabet.indexOf(letter), -1 when absent
indexOf(letter) ==
    IF \E i \in DOMAIN hebrewAlphabet : hebrewAlphabet[i] = letter
    THEN (CHOOSE i \in DOMAIN hebrewAlphabet : hebrewAlphabet[i] = letter) - 1
    ELSE -1

ordinalOf(letter) ==
    IF indexOf(letter) # -1 THEN indexOf(letter) + 1
    ELSE indexOf(lookup(finalMap, letter)) + 1

RECURSIVE calculateOrdinalGematria(_)
calculateOrdinalGematria(letters) ==
    IF letters = <<>> THEN 0
    ELSE ordinalOf(Head(letters)) + calculateOrdinalGematria(Tail(letters))

calculateReducedGematria(letters) == reduceToSingleDigit(calculateStandardGematria(letters))

GematriaMethods == {"standard", "small", "large", "ordinal", "reduced"}

valueByMethod(letters, method) ==
    CASE method = "standard" -> calculateStandardGematria(letters)
      [] method = "large" -> calculateLargeGematria(letters)
      [] method = "small" -> calculateSmallGematria(letters)
      [] method = "ordinal" -> calculateOrdinalGematria(letters)
      [] method = "reduced" -> calculateReducedGematria(letters)

getGematriaSignificance(value) ==
    IF has(significanceMap, value)
    THEN [known |-> lookup(significanceMap, value)]
    ELSE [numericalValue |-> value]

\* COMMON_MULTIPLIERS.filter(m => m.value === value)
multipliersOfValue(value) == SelectSeq(multipliers, LAMBDA m : m.value = value)

gematriaCalculation(text, value, method) ==
    [value |->
        [originalText |-> text,
         value |-> value,
         method |-> method,
         significance |-> getGematriaSignificance(value),
         commonMultipliers |-> multipliersOfValue(value)]]

\* the two errors thrown in the try block, as the catch rethrows them
NoHebrewLetters ==
    [error |-> "CALCULATION_ERROR",
     message |-> "Gematria calculation failed: No Hebrew letters found in input text"]
UnsupportedMethod(method) ==
    [error |-> "CALCULATION_ERROR",
     message |-> "Gematria calculation failed: Unsupported gematria method",
     method |-> method]

\* calculateGematria: the GematriaCalculation, or the error it throws
calculateGematria(text, method) ==
    IF cleanText(text) = <<>> THEN NoHebrewLetters
    ELSE IF method \notin GematriaMethods THEN UnsupportedMethod(method)
    ELSE gematriaCalculation(text, valueByMethod(cleanText(text), method), method)

\* Array.prototype.sort with (a, b) => a.value - b.value: stable, ascending
insertByValue(sorted, m) ==
    SelectSeq(sorted, LAMBDA x : x.value <= m.value)
        \o <<m>> \o SelectSeq(sorted, LAMBDA x : x.value > m.value)

RECURSIVE sortByValue(_)
sortByValue(list) ==
    IF list = <<>> THEN <<>>
    ELSE insertByValue(sortByValue(SubSeq(list, 1, Len(list) - 1)), list[Len(list)])

\* .filter(m => m.commonUse)
commonUseOf(table) == SelectSeq(table, LAMBDA m : m.commonUse)

\* .map(m => ({ ...m, value: baseAmount * m.value }))
scaledBy(list, baseAmount) ==
    [i \in DOMAIN list |-> [list[i] EXCEPT !.value = baseAmount * list[i].value]]

\* the suggestions in the order of the table
getSuggestedMultipliersUnsorted(baseAmount) ==
    scaledBy(commonUseOf(multipliers), baseAmount)

getSuggestedMultipliers(baseAmount) ==
    sortByValue(scaledBy(commonUseOf(multipliers), baseAmount))

\* the table sorted where it stands, as COMMON_MULTIPLIERS.sort(...) leaves it
multipliersSortedInPlace(table, baseAmount) == sortByValue(table)

\* the table after getSuggestedMultipliers: filter and map build new arrays and
\* sort rearranges the array map built
multipliersAfterSuggesting(table, baseAmount) == table

findWordsByValue(targetValue) == multipliersOfValue(targetValue)

\* calculateAllMethods: the value by every method whose calculation does not throw
calculateAllMethods(text) ==
    [m \in {mm \in GematriaMethods : ~IsError(calculateGematria(text, mm))} |->
        calculateGematria(text, m).value.value]

\* getCommonMultipliers of the service
getCommonMultipliers == commonUseOf(multipliers)


----------------------------------------------------------------------------
(* The restriction rules *)

isTimeBetween(current, start, end) ==
    IF includes(start, Colon) /\ includes(end, Colon)
    THEN StrLeq(start, current) /\ StrLeq(current, end)
    ELSE FALSE

RegularDay ==
    [noAuctions |-> FALSE,
     restrictedHours |-> <<>>,
     specialConsiderations |-> "Regular day - no restrictions",
     specialConsiderationsHebrew |-> "יום רגיל - אין הגבלות",
     overrideAllowed |-> TRUE,
     emergencyOnly |-> FALSE]

ShabbatDay ==
    [noAuctions |-> TRUE,
     restrictedHours |-> <<>>,
     specialConsiderations |-> "No auctions permitted on Shabbat",
     specialConsiderationsHebrew |-> "אסור לערוך מכירות פומביות בשבת",
     overrideAllowed |-> FALSE,
     emergencyOnly |-> FALSE]

YomTovDay ==
    [noAuctions |-> TRUE,
     restrictedHours |-> <<>>,
     specialConsiderations |-> "No auctions permitted on Yom Tov",
     specialConsiderationsHebrew |-> "אסור לערוך מכירות פומביות ביום טוב",
     overrideAllowed |-> FALSE,
     emergencyOnly |-> FALSE]

RoshChodeshDay ==
    [noAuctions |-> FALSE,
     restrictedHours |-> <<[startTime |-> StrShacharit,
                            endTime |-> StrAfterHallel,
                            description |-> "Limited during morning prayers with Hallel",
                            descriptionHebrew |-> "הגבלה בזמן תפילת שחרית עם הלל"]>>,
     specialConsiderations |-> "Rosh Chodesh - avoid during special prayers",
     specialConsiderationsHebrew |-> "ראש חודש - להימנע בזמן תפילות מיוחדות",
     overrideAllowed |-> TRUE,
     emergencyOnly |-> FALSE]

FastDay(zmanim) ==
    [noAuctions |-> FALSE,
     restrictedHours |-> <<[startTime |-> toTimeString5(zmanim.alotHaShachar),
                            endTime |-> toTimeString5(zmanim.tzait),
                            description |-> "Sensitive timing during fast day",
                            descriptionHebrew |-> "עיתוי רגיש ביום צום"]>>,
     specialConsiderations |-> "Fast day - proceed with sensitivity",
     specialConsiderationsHebrew |-> "יום צום - להמשיך ברגישות",
     overrideAllowed |-> TRUE,
     emergencyOnly |-> FALSE]

\* the Rosh Chodesh rule without its "not Shabbat, not Yom Tov" guard
restrictionRulesUnguarded(enhanced, zmanim) ==
    LET r0 == RegularDay
        r1 == IF enhanced.isShabbat THEN ShabbatDay ELSE r0
        r2 == IF enhanced.isYomTov THEN YomTovDay ELSE r1
        r3 == IF enhanced.isRoshChodesh THEN RoshChodeshDay ELSE r2
        r4 == IF enhanced.isFastDay THEN FastDay(zmanim) ELSE r3
    IN r4

\* the body of getAuctionRestrictions once enhanced and zmanim are at hand:
\* four if-statements in sequence, each overwriting `restrictions`
restrictionRules(enhanced, zmanim) ==
    LET r0 == RegularDay
        r1 == IF enhanced.isShabbat THEN ShabbatDay ELSE r0
        r2 == IF enhanced.isYomTov THEN YomTovDay ELSE r1
        r3 == IF enhanced.isRoshChodesh /\ ~enhanced.isShabbat /\ ~enhanced.isYomTov
              THEN RoshChodeshDay ELSE r2
        r4 == IF enhanced.isFastDay THEN FastDay(zmanim) ELSE r3
    IN r4

\* getAuctionRestrictions given what getEnhancedDate and getZmanim gave:
\* an error thrown by either propagates
auctionRestrictionsOf(enhanced, zmanim) ==
    IF IsError(enhanced) THEN enhanced
    ELSE IF IsError(zmanim) THEN zmanim
    ELSE restrictionRules(enhanced, zmanim)

Permitted ==
    [permitted |-> TRUE,
     reason |-> "Auctions permitted",
     reasonHebrew |-> "מכירות פומביות מותרות"]

\* the for-loop over restrictedHours: the first window that matches denies
RECURSIVE checkRestrictedHours(_, _)
checkRestrictedHours(currentTime, hours) ==
    IF hours = <<>> THEN Permitted
    ELSE IF isTimeBetween(currentTime, Head(hours).startTime, Head(hours).endTime)
         THEN [permitted |-> FALSE,
               reason |-> Head(hours).description,
               reasonHebrew |-> Head(hours).descriptionHebrew]
         ELSE checkRestrictedHours(currentTime, Tail(hours))

\* isAuctionPermitted without the noAuctions test
auctionPermittedOfNoBlock(restrictions, dateTime) ==
    IF IsError(restrictions) THEN restrictions
    ELSE checkRestrictedHours(toTimeString5(dateTime), restrictions.restrictedHours)

\* isAuctionPermitted given the value of getAuctionRestrictions(dateTime, location)
auctionPermittedOf(restrictions, dateTime) ==
    IF IsError(restrictions) THEN restrictions
    ELSE IF restrictions.noAuctions
         THEN [permitted |-> FALSE,
               reason |-> restrictions.specialConsiderations,
               reasonHebrew |-> restrictions.specialConsiderationsHebrew]
         ELSE checkRestrictedHours(toTimeString5(dateTime), restrictions.restrictedHours)

----------------------------------------------------------------------------
(* The service: configuration, Zmanim, the cache and its expiry callbacks *)

\* most public calls in a run
MaxCalls == 3
\* last clock value
MaxTime == 2

\* the clock counts units of 12 hours (in milliseconds)
TTLUnitMs == 43200000
\* cacheTTL of createDefaultConfig: 24 hours
DefaultTTL == (24 * 60 * 60 * 1000) \div TTLUnitMs

\* latitude and longitude in 1/10000 degree
NewYork ==
    [name |-> "New York", latitude |-> 407128, longitude |-> -740060,
     timezone |-> "America/New_York", elevation |-> 57]
\* a caller's own Location at the coordinates of NewYork
Manhattan ==
    [name |-> "Manhattan", latitude |-> 407128, longitude |-> -740060,
     timezone |-> "US/Eastern", elevation |-> 120]
\* latitude 0, longitude 0
NullIsland ==
    [name |-> "Null Island", latitude |-> 0, longitude |-> 0,
     timezone |-> "Etc/UTC", elevation |-> 0]
\* a latitude the Location class of the library rejects
BeyondPole ==
    [name |-> "Beyond", latitude |-> 910000, longitude |-> 100000,
     timezone |-> "Etc/UTC", elevation |-> 0]
\* a Location whose timezone is not set
NoTimezone ==
    [name |-> "Nowhere", latitude |-> 407128, longitude |-> -740060,
     timezone |-> "", elevation |-> 0]
\* the location argument left out
NoLocation == [none |-> TRUE]

IsMissing(loc) == "none" \in DOMAIN loc

createDefaultConfig(location) ==
    [defaultLocation |-> location,
     cacheEnabled |-> TRUE,
     cacheTTL |-> DefaultTTL,
     includeFastDays |-> TRUE]

\* validateConfig: the error it throws, or "ok"
validateConfig(cfg) ==
    IF IsMissing(cfg.defaultLocation) THEN "CONFIGURATION_ERROR"
    ELSE IF cfg.defaultLocation.latitude = 0 \/ cfg.defaultLocation.longitude = 0
         THEN "INVALID_LOCATION"
    ELSE IF cfg.defaultLocation.timezone = "" THEN "INVALID_LOCATION"
    ELSE "ok"

\* { ...this.config, ...newConfig }
MergeConfig(cfg, newConfig) ==
    [f \in DOMAIN cfg |-> IF f \in DOMAIN newConfig THEN newConfig[f] ELSE cfg[f]]

\* minutes after local midnight of the thirteen times at sea level
SolarMinutes == <<325, 355, 400, 583, 644, 768, 799, 983, 1060, 1137, 1176, 1209, 1488>>
\* minutes by which elevation moves sunrise and sunset
ElevationMinutes(loc) == loc.elevation \div 60
MaxLatitude == 900000

\* the try block of getZmanim: the Zmanim record, or the error of the catch
computeZmanim(date, loc) ==
    IF loc.latitude < -MaxLatitude \/ loc.latitude > MaxLatitude
    THEN Thrown("CALCULATION_ERROR")
    ELSE LET day == toDateString(date) * MinutesPerDay
         IN [value |->
                [location |-> loc.name,
                 timezone |-> loc.timezone,
                 date |-> date,
                 alotHaShachar |-> day + SolarMinutes[1],
                 misheyakir |-> day + SolarMinutes[2],
                 sunrise |-> day + SolarMinutes[3] - ElevationMinutes(loc),
                 sofZmanShma |-> day + SolarMinutes[4],
                 sofZmanTfilla |-> day + SolarMinutes[5],
                 chatzot |-> day + SolarMinutes[6],
                 minchaGedola |-> day + SolarMinutes[7],
                 minchaKetana |-> day + SolarMinutes[8],
                 plagHaMincha |-> day + SolarMinutes[9],
                 sunset |-> day + SolarMinutes[10] + ElevationMinutes(loc),
                 tzait |-> day + SolarMinutes[11],
                 tzait72 |-> day + SolarMinutes[12],
                 chatzotLayla |-> day + SolarMinutes[13]]]

\* what each entry point computes when it does not answer from the cache
computeGregorianToHebrew(date) ==
    LET result == gregorianToHebrewResult(date)
    IN IF ~result.success THEN Thrown("CALCULATION_ERROR")
       ELSE [value |-> result.hebrewDate]

computeHebrewToGregorian(day, month, year) ==
    LET result == hebrewToGregorianResult(day, month, year)
    IN IF ~result.success THEN Thrown("CALCULATION_ERROR")
       ELSE [value |-> result.gregorianDate]

\* an enrichment that flags the two days of Rosh Hashanah as Yom Tov
enrichWithRoshHashanah(enhanced) ==
    IF IsError(enhanced) THEN enhanced
    ELSE [value |->
            [enhanced EXCEPT !.isYomTov =
                /\ HDate(enhanced.gregorianDate).mm = HDateTishrei
                /\ enhanced.hebrewDay <= 2]]

\* enrichWithHolidayInfo has an empty body: the date is returned as it was built
enrichWithHolidayInfo(enhanced) ==
    IF IsError(enhanced) THEN enhanced ELSE [value |-> enhanced]

\* getEnhancedHebrewDate, then enrichWithHolidayInfo
computeEnhancedDate(date) == enrichWithHolidayInfo(getEnhancedHebrewDate(date))

\* cache keys: the operation and the parts of the template string
KeyGregToHeb(date) == <<"greg_to_heb", toISOString(date), 0, 0>>
KeyHebToGreg(day, month, year) == <<"heb_to_greg", day, month, year>>
KeyEnhanced(date) == <<"enhanced", toISOString(date), 0, 0>>
KeyZmanim(date, loc) == <<"zmanim", toDateString(date), loc.latitude, loc.longitude>>

\* this.cache.set(key, value), with the time of writing
CachePut(c, key, value) ==
    [k \in DOMAIN c \cup {key} |->
        IF k = key THEN [value |-> value, written |-> now] ELSE c[k]]

\* this.cache.delete(key)
CacheDelete(c, key) == [k \in DOMAIN c \ {key} |-> c[k]]

\* an entry point that stores what it computed without looking the key up first
memoOverwriting(st, key, computed) ==
    IF IsError(computed) \/ ~config.cacheEnabled
    THEN [ret |-> computed, cache |-> st.cache, timers |-> st.timers, hits |-> st.hits]
    ELSE [ret |-> computed,
          cache |-> CachePut(st.cache, key, computed.value),
          timers |-> st.timers \cup
                        {[key |-> key, due |-> now + config.cacheTTL, id |-> ncalls]},
          hits |-> st.hits]

\* the lookup every cached entry point starts with and the store it ends with;
\* st carries cache, timers and the entries read so far through nested calls
memo(st, key, computed) ==
    IF config.cacheEnabled /\ key \in DOMAIN st.cache
    THEN [ret |-> [value |-> st.cache[key].value],
          cache |-> st.cache,
          timers |-> st.timers,
          hits |-> st.hits \cup {[key |-> key, age |-> now - st.cache[key].written]}]
    ELSE IF IsError(computed)
    THEN [ret |-> computed, cache |-> st.cache, timers |-> st.timers, hits |-> st.hits]
    ELSE IF config.cacheEnabled
    THEN [ret |-> computed,
          cache |-> CachePut(st.cache, key, computed.value),
          timers |-> st.timers \cup
                        {[key |-> key, due |-> now + config.cacheTTL, id |-> ncalls]},
          hits |-> st.hits]
    ELSE [ret |-> computed, cache |-> st.cache, timers |-> st.timers, hits |-> st.hits]

Entry == [cache |-> cache, timers |-> timers, hits |-> {}]

doGregorianToHebrew(st, date) == memo(st, KeyGregToHeb(date), computeGregorianToHebrew(date))

doHebrewToGregorian(st, day, month, year) ==
    memo(st, KeyHebToGreg(day, month, year), computeHebrewToGregorian(day, month, year))

doGetEnhancedDate(st, date) == memo(st, KeyEnhanced(date), computeEnhancedDate(date))

LocOf(location) == IF IsMissing(location) THEN config.defaultLocation ELSE location

doGetZmanim(st, date, location) ==
    memo(st, KeyZmanim(date, LocOf(location)), computeZmanim(date, LocOf(location)))

\* the rules applied to what getEnhancedDate (e) and getZmanim (z) returned
restrictionsFrom(e, z) ==
    IF IsError(z.ret) THEN z
    ELSE [z EXCEPT !.ret = [value |-> auctionRestrictionsOf(e.ret.value, z.ret.value)]]

\* getZmanim runs only when getEnhancedDate did not throw
zmanimAfter(e, date, location) ==
    IF IsError(e.ret) THEN e
    ELSE restrictionsFrom(e, doGetZmanim(e, date, location))

\* getAuctionRestrictions: getEnhancedDate, then getZmanim, then the rules
doGetAuctionRestrictions(st, date, location) ==
    zmanimAfter(doGetEnhancedDate(st, date), date, location)

\* the decision isAuctionPermitted makes of what getAuctionRestrictions returned
permittedFrom(r, dateTime) ==
    IF IsError(r.ret) THEN r
    ELSE [r EXCEPT !.ret = [value |-> auctionPermittedOf(r.ret.value, dateTime)]]

doIsAuctionPermitted(st, dateTime, location) ==
    permittedFrom(doGetAuctionRestrictions(st, dateTime, location), dateTime)

\* location arguments
LocationArgs == {NoLocation, Manhattan}
\* Hebrew dates handed to hebrewToGregorian: 1 Tishrei 5784 and a month 14
HebrewDateArgs == {<<1, HDateTishrei, EpochHebrewYear>>, <<1, 14, EpochHebrewYear>>}
\* arguments of updateConfig
ConfigPatches ==
    {[cacheEnabled |-> FALSE], [cacheEnabled |-> TRUE], [cacheTTL |-> 1],
     [defaultLocation |-> NullIsland], [defaultLocation |-> BeyondPole],
     [defaultLocation |-> NoTimezone]}

NoDate == -2
NoHebrewDate == <<0, 0, 0>>
CallOf(op, date, loc, hdate, patch) ==
    [op |-> op, date |-> date, loc |-> loc, hdate |-> hdate, patch |-> patch]

RulesIdle ==
    /\ enhancedIn = NotCalled
    /\ zmanimIn = NotCalled
    /\ dateTimeIn = NoDate
    /\ liturgyIn = NotCalled
    /\ restrictionsOut = NotCalled
    /\ permittedOut = NotCalled

UtilIdle ==
    /\ HebrewCalendar = "class"
    /\ utilIn = NotCalled
    /\ utilOut = NotCalled
    /\ utilBack = NotCalled
    /\ multipliers = COMMON_MULTIPLIERS
    /\ gematriaCalls = 0

Init ==
    /\ config = createDefaultConfig(NewYork)
    /\ cache = <<>>
    /\ timers = {}
    /\ now = 0
    /\ ncalls = 0
    /\ lastCall = NotCalled
    /\ lastRet = NotCalled
    /\ lastHit = {}
    /\ RulesIdle
    /\ UtilIdle

\* a public call that leaves the configuration alone
Returns(call, r) ==
    /\ ncalls' = ncalls + 1
    /\ lastCall' = call
    /\ lastRet' = r.ret
    /\ cache' = r.cache
    /\ timers' = r.timers
    /\ lastHit' = r.hits
    /\ UNCHANGED <<config, now>>
    /\ UNCHANGED <<rulesVars, utilVars>>

gregorianToHebrew ==
    \E date \in Dates :
        /\ ncalls < MaxCalls
        /\ Returns(CallOf("gregorianToHebrew", date, NoLocation, NoHebrewDate, <<>>),
                   doGregorianToHebrew(Entry, date))

hebrewToGregorian ==
    \E h \in HebrewDateArgs :
        /\ ncalls < MaxCalls
        /\ Returns(CallOf("hebrewToGregorian", NoDate, NoLocation, h, <<>>),
                   doHebrewToGregorian(Entry, h[1], h[2], h[3]))

getEnhancedDate ==
    \E date \in Dates :
        /\ ncalls < MaxCalls
        /\ Returns(CallOf("getEnhancedDate", date, NoLocation, NoHebrewDate, <<>>),
                   doGetEnhancedDate(Entry, date))

getZmanim ==
    \E date \in Dates, location \in LocationArgs :
        /\ ncalls < MaxCalls
        /\ Returns(CallOf("getZmanim", date, location, NoHebrewDate, <<>>),
                   doGetZmanim(Entry, date, location))

getAuctionRestrictions ==
    \E date \in Dates, location \in LocationArgs :
        /\ ncalls < MaxCalls
        /\ Returns(CallOf("getAuctionRestrictions", date, location, NoHebrewDate, <<>>),
                   doGetAuctionRestrictions(Entry, date, location))

isAuctionPermitted ==
    \E dateTime \in Dates, location \in LocationArgs :
        /\ ncalls < MaxCalls
        /\ Returns(CallOf("isAuctionPermitted", dateTime, location, NoHebrewDate, <<>>),
                   doIsAuctionPermitted(Entry, dateTime, location))

clearCache ==
    /\ ncalls < MaxCalls
    /\ ncalls' = ncalls + 1
    /\ lastCall' = CallOf("clearCache", NoDate, NoLocation, NoHebrewDate, <<>>)
    /\ lastRet' = [value |-> "undefined"]
    /\ cache' = <<>>
    /\ lastHit' = {}
    /\ UNCHANGED <<config, timers, now>>
    /\ UNCHANGED <<rulesVars, utilVars>>

\* the configuration is replaced before it is validated; the cache is cleared
\* only after validation passed and only when the argument disables the cache
updateConfig ==
    \E newConfig \in ConfigPatches :
        LET merged == MergeConfig(config, newConfig)
            verdict == validateConfig(merged)
        IN /\ ncalls < MaxCalls
           /\ ncalls' = ncalls + 1
           /\ lastCall' = CallOf("updateConfig", NoDate, NoLocation, NoHebrewDate, newConfig)
           /\ config' = merged
           /\ lastRet' = IF verdict = "ok" THEN [value |-> "undefined"] ELSE Thrown(verdict)
           /\ cache' = IF /\ verdict = "ok"
                          /\ "cacheEnabled" \in DOMAIN newConfig
                          /\ newConfig.cacheEnabled = FALSE
                       THEN <<>> ELSE cache
           /\ lastHit' = {}
           /\ UNCHANGED <<timers, now>>
           /\ UNCHANGED <<rulesVars, utilVars>>

\* a setTimeout callback runs: () => this.cache.delete(cacheKey)
ExpireEntry ==
    \E tm \in timers :
        /\ tm.due <= now
        /\ cache' = CacheDelete(cache, tm.key)
        /\ timers' = timers \ {tm}
        /\ UNCHANGED <<config, now, ncalls, lastCall, lastRet, lastHit>>
        /\ UNCHANGED <<rulesVars, utilVars>>

\* time passes; a callback that is due runs before the clock moves on
Tick ==
    /\ now < MaxTime
    /\ \A tm \in timers : tm.due > now
    /\ now' = now + 1
    /\ UNCHANGED <<config, cache, timers, ncalls, lastCall, lastRet, lastHit>>
    /\ UNCHANGED <<rulesVars, utilVars>>

Next ==
    \/ gregorianToHebrew
    \/ hebrewToGregorian
    \/ getEnhancedDate
    \/ getZmanim
    \/ getAuctionRestrictions
    \/ isAuctionPermitted
    \/ clearCache
    \/ updateConfig
    \/ ExpireEntry
    \/ Tick

Spec == Init /\ [][Next]_vars

\* the same service in runs of fewer calls
MaxCacheCalls == 2

NextCache ==
    \/ (ncalls < MaxCacheCalls /\ gregorianToHebrew)
    \/ (ncalls < MaxCacheCalls /\ hebrewToGregorian)
    \/ (ncalls < MaxCacheCalls /\ getEnhancedDate)
    \/ (ncalls < MaxCacheCalls /\ getZmanim)
    \/ (ncalls < MaxCacheCalls /\ getAuctionRestrictions)
    \/ (ncalls < MaxCacheCalls /\ isAuctionPermitted)
    \/ (ncalls < MaxCacheCalls /\ clearCache)
    \/ (ncalls < MaxCacheCalls /\ updateConfig)
    \/ ExpireEntry
    \/ Tick

SpecCache == Init /\ [][NextCache]_vars

\* construction: new HebrewCalendarService(config)
LatitudeInputs == {-900001, -900000, -1, 0, 1, 407128, 900000, 900001}
LongitudeInputs == {-1800001, -1800000, 0, 100000, 1800000, 1800001}
TimezoneInputs == {"", "Etc/UTC"}
LocationInputs ==
    {[name |-> "Somewhere", latitude |-> lat, longitude |-> lon, timezone |-> tz,
      elevation |-> 0] : lat \in LatitudeInputs, lon \in LongitudeInputs,
                         tz \in TimezoneInputs}
    \cup {NoLocation}

\* before the constructor runs: the configuration handed to it
InitConstruction ==
    /\ lastCall \in {[op |-> "constructor", config |-> createDefaultConfig(loc)] :
                        loc \in LocationInputs}
    /\ config = NotCalled
    /\ cache = <<>>
    /\ timers = {}
    /\ now = 0
    /\ ncalls = 0
    /\ lastRet = NotCalled
    /\ lastHit = {}
    /\ RulesIdle
    /\ UtilIdle

\* this.config = config; this.validateConfig()
constructor ==
    /\ lastRet = NotCalled
    /\ config' = lastCall.config
    /\ lastRet' = IF validateConfig(lastCall.config) = "ok"
                  THEN [value |-> "constructed"]
                  ELSE Thrown(validateConfig(lastCall.config))
    /\ UNCHANGED <<cache, timers, now, ncalls, lastCall, lastHit>>
    /\ UNCHANGED <<rulesVars, utilVars>>

SpecConstruction == InitConstruction /\ [][constructor]_vars

----------------------------------------------------------------------------
(* The rules applied to every combination of inputs *)

\* the flags of an EnhancedHebrewDate that the rules read
EnhancedInputs ==
    [isShabbat : BOOLEAN, isYomTov : BOOLEAN, isRoshChodesh : BOOLEAN, isFastDay : BOOLEAN]

\* dawn of the day: 04:30, or not reached (Invalid Date)
DawnInputs == {270, InvalidDate}
\* nightfall of the day: 19:10, 00:40 of the next local day, or not reached
NightfallInputs == {1150, 1480, InvalidDate}

\* what getZmanim hands to the rules: the two instants they read, or its error
ZmanimInputs ==
    {Thrown("CALCULATION_ERROR")} \cup [alotHaShachar : DawnInputs, tzait : NightfallInputs]

\* instants of the day asked about: 00:10, 04:30, 06:40, 12:00, 19:10, 19:11, 23:55
DateTimeInputs == {10, 270, 400, 720, 1150, 1151, 1435}

\* clock interval of the morning prayer with Hallel: 06:00-07:30 or 07:00-08:30
LiturgyInputs == {[shacharit |-> 360, afterHallel |-> 450],
                  [shacharit |-> 420, afterHallel |-> 510]}

ServiceIdle ==
    /\ config = [idle |-> TRUE]
    /\ cache = <<>>
    /\ timers = {}
    /\ now = 0
    /\ ncalls = 0
    /\ lastCall = NotCalled
    /\ lastRet = NotCalled
    /\ lastHit = {}

InitRules ==
    /\ enhancedIn \in EnhancedInputs
    /\ zmanimIn \in ZmanimInputs
    /\ dateTimeIn \in DateTimeInputs
    /\ liturgyIn \in LiturgyInputs
    /\ restrictionsOut = NotCalled
    /\ permittedOut = NotCalled
    /\ ServiceIdle
    /\ UtilIdle

RulesGetAuctionRestrictions ==
    /\ restrictionsOut' = auctionRestrictionsOf(enhancedIn, zmanimIn)
    /\ UNCHANGED <<enhancedIn, zmanimIn, dateTimeIn, liturgyIn, permittedOut>>
    /\ UNCHANGED <<serviceVars, utilVars>>

RulesIsAuctionPermitted ==
    /\ permittedOut' =
           auctionPermittedOf(auctionRestrictionsOf(enhancedIn, zmanimIn), dateTimeIn)
    /\ UNCHANGED <<enhancedIn, zmanimIn, dateTimeIn, liturgyIn, restrictionsOut>>
    /\ UNCHANGED <<serviceVars, utilVars>>

NextRules == RulesGetAuctionRestrictions \/ RulesIsAuctionPermitted

SpecRules == InitRules /\ [][NextRules]_vars

----------------------------------------------------------------------------
(* The conversion, numeral and gematria utilities as pure functions *)

\* numbers handed to toHebrewNumeral
NumeralMargin == 2
NumeralInputs == (0 - NumeralMargin)..(999 + NumeralMargin)

\* years handed to formatHebrewYear
FormatYearInputs == {5015, 5700, 5783, 5784, 6000}

\* Hebrew dates handed to hebrewToGregorian and isValidHebrewDate: 5783 and 5785
\* are common years with a 30-day Cheshvan and Kislev, 5784 is a leap year with
\* both at 29 days, 6000 is a common year with both at 29 days
HebrewDayInputs == {0, 1, 15, 29, 30, 31}
HebrewMonthInputs == 0..14
HebrewYearInputs == {5783, 5784, 5785, 6000}

\* calendar days handed to gregorianToHebrew, counted from 2023-09-16: the
\* months around 5784 and the first days of 6000 (from 2239-09-30)
DaysBefore == 40
LastDay == 420
FirstDayOf6000 == 78906
DayInputs == ((0 - DaysBefore)..LastDay) \cup (FirstDayOf6000..(FirstDayOf6000 + 3))
\* 08:00 of the calendar day
MorningOf(day) == day * MinutesPerDay + 480

\* years handed to isHebrewLeapYear
LastCycleYear == 57
LeapYearInputs == (1..LastCycleYear) \cup {5783, 5784, 5785}

\* code units of the texts handed to calculateGematria: alef, yod, final kaf,
\* kaf, final tsadi, tav; qamats, maqaf, geresh, the ligature double yod;
\* space and the Latin letter a
GematriaChars == {1488, 1497, 1498, 1499, 1509, 1514, 1464, 1470, 1523, 1522, 32, 97}
MaxTextLen == 3
RECURSIVE TextsOfLength(_)
TextsOfLength(n) ==
    IF n = 0 THEN {<<>>}
    ELSE {Append(t, c) : t \in TextsOfLength(n - 1), c \in GematriaChars}
\* every text up to the length, and every single Hebrew letter
TextInputs ==
    UNION {TextsOfLength(n) : n \in 0..MaxTextLen} \cup {<<c>> : c \in 1488..1514}

\* the five methods and a value outside the enum
MethodInputs == GematriaMethods \cup {"atbash"}

UtilInputs ==
    {[fn |-> "toHebrewNumeral", num |-> n] : n \in NumeralInputs}
    \cup {[fn |-> "formatHebrewYear", year |-> y] : y \in FormatYearInputs}
    \cup {[fn |-> "hebrewToGregorian", day |-> d, month |-> m, year |-> y] :
            d \in HebrewDayInputs, m \in HebrewMonthInputs, y \in HebrewYearInputs}
    \cup {[fn |-> "gregorianToHebrew", date |-> MorningOf(d)] : d \in DayInputs}
    \cup {[fn |-> "isHebrewLeapYear", year |-> y] : y \in LeapYearInputs}
    \cup {[fn |-> "getDaysInHebrewMonth", month |-> m, year |-> y] :
            m \in 1..13, y \in HebrewYearInputs}
    \cup {[fn |-> "isValidHebrewDate", day |-> d, month |-> m, year |-> y] :
            d \in HebrewDayInputs, m \in HebrewMonthInputs, y \in HebrewYearInputs \cup {0}}
    \cup {[fn |-> "calculateGematria", text |-> t, method |-> m] :
            t \in TextInputs, m \in MethodInputs}

InitUtils ==
    /\ HebrewCalendar \in HebrewCalendarBindings
    /\ utilIn \in UtilInputs
    /\ utilOut = NotCalled
    /\ utilBack = NotCalled
    /\ multipliers = COMMON_MULTIPLIERS
    /\ gematriaCalls = 0
    /\ RulesIdle
    /\ ServiceIdle

\* a utility called with the arguments of utilIn
UtilReturns(fn, ret) ==
    /\ utilIn.fn = fn
    /\ utilOut = NotCalled
    /\ utilOut' = ret
    /\ UNCHANGED <<HebrewCalendar, utilIn, utilBack, multipliers, gematriaCalls>>
    /\ UNCHANGED <<rulesVars, serviceVars>>

UtilToHebrewNumeral ==
    /\ utilIn.fn = "toHebrewNumeral"
    /\ UtilReturns("toHebrewNumeral", toHebrewNumeral(utilIn.num))

UtilFormatHebrewYear ==
    /\ utilIn.fn = "formatHebrewYear"
    /\ UtilReturns("formatHebrewYear", formatHebrewYear(utilIn.year))

UtilHebrewToGregorian ==
    /\ utilIn.fn = "hebrewToGregorian"
    /\ UtilReturns("hebrewToGregorian",
                   hebrewToGregorianResult(utilIn.day, utilIn.month, utilIn.year))

UtilGregorianToHebrew ==
    /\ utilIn.fn = "gregorianToHebrew"
    /\ UtilReturns("gregorianToHebrew", gregorianToHebrewResult(utilIn.date))

\* gregorianToHebrew of the date hebrewToGregorian returned
UtilConvertBack ==
    /\ utilIn.fn = "hebrewToGregorian"
    /\ WasCalled(utilOut)
    /\ utilOut.success
    /\ utilBack = NotCalled
    /\ utilBack' = gregorianToHebrewResult(utilOut.gregorianDate)
    /\ UNCHANGED <<HebrewCalendar, utilIn, utilOut, multipliers, gematriaCalls>>
    /\ UNCHANGED <<rulesVars, serviceVars>>

UtilIsHebrewLeapYear ==
    /\ utilIn.fn = "isHebrewLeapYear"
    /\ UtilReturns("isHebrewLeapYear", isHebrewLeapYear(HebrewCalendar, utilIn.year))

UtilGetDaysInHebrewMonth ==
    /\ utilIn.fn = "getDaysInHebrewMonth"
    /\ UtilReturns("getDaysInHebrewMonth",
                   getDaysInHebrewMonth(HebrewCalendar, utilIn.month, utilIn.year))

UtilIsValidHebrewDate ==
    /\ utilIn.fn = "isValidHebrewDate"
    /\ UtilReturns("isValidHebrewDate",
                   [value |-> isValidHebrewDate(HebrewCalendar, utilIn.day, utilIn.month,
                                                utilIn.year)])

UtilCalculateGematria ==
    /\ utilIn.fn = "calculateGematria"
    /\ UtilReturns("calculateGematria", calculateGematria(utilIn.text, utilIn.method))

NextUtils ==
    \/ UtilToHebrewNumeral
    \/ UtilFormatHebrewYear
    \/ UtilHebrewToGregorian
    \/ UtilGregorianToHebrew
    \/ UtilConvertBack
    \/ UtilIsHebrewLeapYear
    \/ UtilGetDaysInHebrewMonth
    \/ UtilIsValidHebrewDate
    \/ UtilCalculateGematria

SpecUtils == InitUtils /\ [][NextUtils]_vars

----------------------------------------------------------------------------
(* Sequences of calls that read the multiplier table *)

\* most calls in a sequence
MaxGematriaCalls == 3
\* texts handed to calculateGematria and calculateAllMethods: chet yod (18),
\* alef he bet he (13), alef, final kaf, a Latin letter, the empty text
WordInputs == {<<1495, 1497>>, <<1488, 1492, 1489, 1492>>, <<1488>>, <<1498>>, <<97>>, <<>>}
\* base amounts handed to getSuggestedMultipliers
BaseAmountInputs == {-100, -1, 0, 1, 18, 100}
\* values handed to findWordsByValue
TargetValueInputs == {0, 13, 18, 19, 376}

InitGematria ==
    /\ HebrewCalendar = "class"
    /\ utilIn = NotCalled
    /\ utilOut = NotCalled
    /\ utilBack = NotCalled
    /\ multipliers = COMMON_MULTIPLIERS
    /\ gematriaCalls = 0
    /\ RulesIdle
    /\ ServiceIdle

\* one more call of the sequence: its arguments, what it returned or threw and
\* the table it leaves in memory
GematriaCall(call, ret, table) ==
    /\ gematriaCalls < MaxGematriaCalls
    /\ gematriaCalls' = gematriaCalls + 1
    /\ utilIn' = call
    /\ utilOut' = ret
    /\ multipliers' = table
    /\ UNCHANGED <<HebrewCalendar, utilBack>>
    /\ UNCHANGED <<rulesVars, serviceVars>>

GematriaCalculate ==
    \E text \in WordInputs, method \in MethodInputs :
        GematriaCall([fn |-> "calculateGematria", text |-> text, method |-> method],
                     calculateGematria(text, method), multipliers)

GematriaSuggest ==
    \E baseAmount \in BaseAmountInputs :
        GematriaCall([fn |-> "getSuggestedMultipliers", baseAmount |-> baseAmount],
                     [value |-> getSuggestedMultipliers(baseAmount)],
                     multipliersAfterSuggesting(multipliers, baseAmount))

GematriaFindWords ==
    \E targetValue \in TargetValueInputs :
        GematriaCall([fn |-> "findWordsByValue", targetValue |-> targetValue],
                     [value |-> findWordsByValue(targetValue)], multipliers)

GematriaAllMethods ==
    \E text \in WordInputs :
        GematriaCall([fn |-> "calculateAllMethods", text |-> text],
                     [value |-> calculateAllMethods(text)], multipliers)

GematriaCommonMultipliers ==
    GematriaCall([fn |-> "getCommonMultipliers"],
                 [value |-> getCommonMultipliers], multipliers)

NextGematria ==
    \/ GematriaCalculate
    \/ GematriaSuggest
    \/ GematriaFindWords
    \/ GematriaAllMethods
    \/ GematriaCommonMultipliers

SpecGematria == InitGematria /\ [][NextGematria]_vars

----------------------------------------------------------------------------
(* Claims about the rules, checked under SpecRules *)

RestrictionsReturned == WasCalled(restrictionsOut) /\ ~IsError(restrictionsOut)
PermittedReturned == WasCalled(permittedOut) /\ ~IsError(permittedOut)

FullyBlocked(r) ==
    r.noAuctions /\ r.restrictedHours = <<>> /\ ~r.overrideAllowed

SolarEventMissing ==
    IF IsError(zmanimIn) THEN TRUE
    ELSE enhancedIn.isFastDay
         /\ (zmanimIn.alotHaShachar = InvalidDate \/ zmanimIn.tzait = InvalidDate)

C3_NoAuctionsDenied ==
    (RestrictionsReturned /\ WasCalled(permittedOut) /\ restrictionsOut.noAuctions)
        => permittedOut = [permitted |-> FALSE,
                           reason |-> restrictionsOut.specialConsiderations,
                           reasonHebrew |-> restrictionsOut.specialConsiderationsHebrew]

C3_Witness ==
    /\ RestrictionsReturned
    /\ restrictionsOut.noAuctions
    /\ enhancedIn.isShabbat
    /\ dateTimeIn = 720
    /\ PermittedReturned
    /\ ~permittedOut.permitted
    /\ permittedOut.reason = "No auctions permitted on Shabbat"

OnlyRoshChodesh ==
    enhancedIn.isRoshChodesh /\ ~enhancedIn.isShabbat /\ ~enhancedIn.isYomTov
        /\ ~enhancedIn.isFastDay

OnlyFastDay ==
    enhancedIn.isFastDay /\ ~enhancedIn.isShabbat /\ ~enhancedIn.isYomTov
        /\ ~enhancedIn.isRoshChodesh

ZmanimValid ==
    IF IsError(zmanimIn) THEN FALSE
    ELSE zmanimIn.alotHaShachar # InvalidDate /\ zmanimIn.tzait # InvalidDate

\* the instant lies in the day's restricted window: morning prayer with Hallel on
\* Rosh Chodesh, dawn through nightfall on a fast day
InsideWindow ==
    IF OnlyRoshChodesh
    THEN liturgyIn.shacharit <= dateTimeIn /\ dateTimeIn <= liturgyIn.afterHallel
    ELSE zmanimIn.alotHaShachar <= dateTimeIn /\ dateTimeIn <= zmanimIn.tzait

\* C4: on a partially restricted day (Rosh Chodesh, or a fast day with its dawn
\* and nightfall computed) isAuctionPermitted denies, with the window's
\* description, every instant inside the day's window and permits every instant
\* outside it.
C4_WindowDecides ==
    (PermittedReturned /\ ZmanimValid /\ (OnlyRoshChodesh \/ OnlyFastDay)) =>
        IF InsideWindow
        THEN /\ ~permittedOut.permitted
             /\ \E i \in DOMAIN restrictionRules(enhancedIn, zmanimIn).restrictedHours :
                    LET w == restrictionRules(enhancedIn, zmanimIn).restrictedHours[i]
                    IN /\ permittedOut.reason = w.description
                       /\ permittedOut.reasonHebrew = w.descriptionHebrew
        ELSE permittedOut.permitted

C6_ShabbatRoshChodeshBlocked ==
    (RestrictionsReturned /\ enhancedIn.isShabbat /\ enhancedIn.isRoshChodesh
        /\ ~enhancedIn.isYomTov /\ ~enhancedIn.isFastDay)
        => FullyBlocked(restrictionsOut) /\ restrictionsOut # RoshChodeshDay

C6_Witness ==
    /\ enhancedIn = [isShabbat |-> TRUE, isYomTov |-> FALSE,
                     isRoshChodesh |-> TRUE, isFastDay |-> FALSE]
    /\ RestrictionsReturned
    /\ restrictionsOut = ShabbatDay

----------------------------------------------------------------------------
(* Claims about the cache, checked under Spec *)

FacadeOps == {"gregorianToHebrew", "hebrewToGregorian", "getEnhancedDate", "getZmanim",
              "getAuctionRestrictions", "isAuctionPermitted"}

IsFacadeCall(call) == WasCalled(call) /\ call.op \in FacadeOps

NothingCached == [cache |-> <<>>, timers |-> {}, hits |-> {}]

\* what the call returns from a service that has nothing cached, which is what
\* a service with cacheEnabled = false returns on every call
UncachedReturn(call) ==
    CASE call.op = "gregorianToHebrew" -> doGregorianToHebrew(NothingCached, call.date).ret
      [] call.op = "hebrewToGregorian" ->
            doHebrewToGregorian(NothingCached, call.hdate[1], call.hdate[2], call.hdate[3]).ret
      [] call.op = "getEnhancedDate" -> doGetEnhancedDate(NothingCached, call.date).ret
      [] call.op = "getZmanim" -> doGetZmanim(NothingCached, call.date, call.loc).ret
      [] call.op = "getAuctionRestrictions" ->
            doGetAuctionRestrictions(NothingCached, call.date, call.loc).ret
      [] call.op = "isAuctionPermitted" ->
            doIsAuctionPermitted(NothingCached, call.date, call.loc).ret

\* C7: cache transparency. Every facade call returns the value the same call
\* returns when the same sequence runs with the cache disabled.
C7_CacheTransparent ==
    IsFacadeCall(lastCall) => lastRet = UncachedReturn(lastCall)

\* C8: after an updateConfig call that changes the configuration the cache holds
\* no entry written before the call.
C8_ConfigChangeEmptiesCache ==
    [][(ncalls' = ncalls + 1 /\ lastCall'.op = "updateConfig" /\ config' # config)
          => cache' = <<>>]_vars

\* C9: no call is answered from a cache entry written more than cacheTTL, as
\* configured when the entry is read, before the read.
C9_NoReadBeyondTTL ==
    \A h \in lastHit : h.age <= config.cacheTTL

\* C10: idempotence. A facade call repeated with identical inputs under an
\* unchanged configuration, with nothing but the passage of time and expiry
\* callbacks since the call before, returns the value the call before returned.
C10_RepeatedCallSameValue ==
    [][(ncalls' = ncalls + 1 /\ IsFacadeCall(lastCall) /\ lastCall' = lastCall
            /\ config' = config)
          => lastRet' = lastRet]_vars

----------------------------------------------------------------------------
(* Conversion, numerals and gematria: C11 to C20 *)

UtilCalled(fn) == utilIn.fn = fn /\ WasCalled(utilOut)

\* the month of the library's numbering that a month number of the conversion
\* API names in HEBREW_MONTHS: 1 Tishrei .. 6 Adar, 7 Nissan .. 12 Elul, 13 Adar II
CalendarMonthOf(month) ==
    IF month = 13 THEN ADAR_II
    ELSE IF month <= 6 THEN month + 6
    ELSE month - 6

\* the HebrewDate invariants: month 13 only in a leap year, the day within the
\* length of the month in the year
ValidHebrewDate(day, month, year) ==
    /\ day >= 1
    /\ month \in 1..13
    /\ year >= 1
    /\ (month = 13 => isLeapYear(year))
    /\ day <= daysInMonth(CalendarMonthOf(month), year)

\* C11: for every valid Hebrew date, hebrewToGregorian yields a date and
\* gregorianToHebrew of that date yields the same day, month and year.
C11_RoundTrip ==
    (UtilCalled("hebrewToGregorian")
        /\ ValidHebrewDate(utilIn.day, utilIn.month, utilIn.year))
        => /\ utilOut.success
           /\ WasCalled(utilBack) =>
                /\ utilBack.success
                /\ utilBack.hebrewDate.hebrewDay = utilIn.day
                /\ utilBack.hebrewDate.hebrewMonth = HEBREW_MONTHS[utilIn.month].name
                /\ utilBack.hebrewDate.hebrewYear = utilIn.year

\* C12: hebrewToGregorian returns a failure for every day, month and year that
\* violate the HebrewDate invariants and a date only for a valid Hebrew date.
C12_InvalidHebrewDateFails ==
    UtilCalled("hebrewToGregorian")
        => (utilOut.success <=> ValidHebrewDate(utilIn.day, utilIn.month, utilIn.year))

\* C13: isValidHebrewDate never throws and returns true exactly for the valid
\* Hebrew dates.
C13_IsValidHebrewDateExact ==
    UtilCalled("isValidHebrewDate")
        => /\ ~IsError(utilOut)
           /\ utilOut.value = ValidHebrewDate(utilIn.day, utilIn.month, utilIn.year)

\* C14: 2023-09-16 converts to day 1 of the month named Tishrei in 5784, and
\* hebrewToGregorian(1, 1, 5784) returns 2023-09-16.
C14_KnownConversion ==
    /\ (UtilCalled("gregorianToHebrew") /\ toDateString(utilIn.date) = 0)
        => /\ utilOut.success
           /\ utilOut.hebrewDate.hebrewDay = 1
           /\ utilOut.hebrewDate.hebrewMonth = HEBREW_MONTHS[1].name
           /\ HEBREW_MONTHS[1].nameEnglish = "Tishrei"
           /\ utilOut.hebrewDate.hebrewYear = 5784
    /\ (UtilCalled("hebrewToGregorian")
            /\ utilIn.day = 1 /\ utilIn.month = 1 /\ utilIn.year = 5784)
        => /\ utilOut.success
           /\ toDateString(utilOut.gregorianDate) = 0

\* C15: gregorianToHebrew returns success with a HebrewDate for every Gregorian
\* date, whatever Hebrew year it falls in.
C15_GregorianToHebrewTotal ==
    UtilCalled("gregorianToHebrew")
        => /\ utilOut.success
           /\ "hebrewDate" \in DOMAIN utilOut

\* number of leap years, by the Metonic rule, among the 19 years from y
LeapYearsFrom(y) == Cardinality({k \in y..(y + 18) : (7 * k + 1) % 19 < 7})

\* C16: isHebrewLeapYear(y) is true exactly when (7y + 1) mod 19 < 7; 5784 is a
\* leap year, 5783 and 5785 are not, and 19 consecutive years hold 7 leap years.
C16_LeapYearRule ==
    UtilCalled("isHebrewLeapYear")
        => /\ ~IsError(utilOut)
           /\ utilOut.value = ((7 * utilIn.year + 1) % 19 < 7)
           /\ utilIn.year = 5784 => utilOut.value
           /\ utilIn.year \in {5783, 5785} => ~utilOut.value
           /\ LeapYearsFrom(utilIn.year) = 7

\* the letters of the numerals, in the order of their values
UnitLetters == <<"א", "ב", "ג", "ד", "ה", "ו", "ז", "ח", "ט">>
TenLetters == <<"י", "כ", "ל", "מ", "נ", "ס", "ע", "פ", "צ">>
HundredLetters == <<"ק", "ר", "ש", "ת">>

\* the letters of the hundreds: tav for each 400, then the letter of the rest
RECURSIVE HundredsOf(_)
HundredsOf(h) ==
    IF h = 0 THEN <<>>
    ELSE IF h > 4 THEN <<HundredLetters[4]>> \o HundredsOf(h - 4)
    ELSE <<HundredLetters[h]>>

\* the letters of a number below 100, with 15 and 16 as tet-vav and tet-zayin
TensAndUnitsOf(n) ==
    IF n = 15 THEN <<UnitLetters[9], UnitLetters[6]>>
    ELSE IF n = 16 THEN <<UnitLetters[9], UnitLetters[7]>>
    ELSE (IF n >= 10 THEN <<TenLetters[n \div 10]>> ELSE <<>>)
         \o (IF n % 10 > 0 THEN <<UnitLetters[n % 10]>> ELSE <<>>)

LettersOf(n) == HundredsOf(n \div 100) \o TensAndUnitsOf(n % 100)

\* a numeral with its mark: geresh after a single letter, gershayim before the
\* last of several
Marked(letters) ==
    IF Len(letters) = 1 THEN letters \o <<Geresh>>
    ELSE SubSeq(letters, 1, Len(letters) - 1) \o <<Gershayim>>
            \o <<letters[Len(letters)]>>

\* C17: for every n in 1..999, toHebrewNumeral(n) is the letters of n with
\* exactly one mark: a trailing geresh after a single letter, otherwise a
\* gershayim before the last letter and no geresh; formatHebrewYear(5784) is
\* tav, shin, pe, gershayim, dalet.
C17_OneMark ==
    /\ (UtilCalled("toHebrewNumeral") /\ utilIn.num \in 1..999)
        => /\ ~IsError(utilOut)
           /\ utilOut.value = Marked(LettersOf(utilIn.num))
    /\ (UtilCalled("formatHebrewYear") /\ utilIn.year = 5784)
        => /\ ~IsError(utilOut)
           /\ utilOut.value = <<"ת", "ש", "פ", Gershayim, "ד">>

IsMark(ch) == ch = Geresh \/ ch = Gershayim
WithoutMarks(str) == SelectSeq(str, LAMBDA ch : ~IsMark(ch))

\* yod directly followed by he or by vav among the letters
SpellsDivineName(letters) ==
    \E i \in 1..(Len(letters) - 1) :
        letters[i] = "י" /\ letters[i + 1] \in {"ה", "ו"}

LastTwo(letters) == SubSeq(letters, Len(letters) - 1, Len(letters))

\* C18: toHebrewNumeral(15) is tet, gershayim, vav and toHebrewNumeral(16) is
\* tet, gershayim, zayin; no n in 1..999 is spelled with yod followed by he or
\* by vav, and every n with n mod 100 in {15, 16} ends in tet-vav or tet-zayin.
C18_NoDivineName ==
    (UtilCalled("toHebrewNumeral") /\ utilIn.num \in 1..999)
        => /\ ~IsError(utilOut)
           /\ utilIn.num = 15 => utilOut.value = <<"ט", Gershayim, "ו">>
           /\ utilIn.num = 16 => utilOut.value = <<"ט", Gershayim, "ז">>
           /\ ~SpellsDivineName(WithoutMarks(utilOut.value))
           /\ utilIn.num % 100 = 15 => LastTwo(WithoutMarks(utilOut.value)) = <<"ט", "ו">>
           /\ utilIn.num % 100 = 16 => LastTwo(WithoutMarks(utilOut.value)) = <<"ט", "ז">>

C18_Witness ==
    /\ UtilCalled("toHebrewNumeral")
    /\ utilIn.num = 115
    /\ ~IsError(utilOut)
    /\ WithoutMarks(utilOut.value) = <<"ק", "ט", "ו">>

\* C19: toHebrewNumeral fails with the out-of-range error for every n < 1 and
\* every n > 999 and returns a non-empty string for every n in 1..999.
C19_NumeralRange ==
    UtilCalled("toHebrewNumeral")
        => IF utilIn.num < 1 \/ utilIn.num > 999
           THEN utilOut = Thrown("CALCULATION_ERROR")
           ELSE ~IsError(utilOut) /\ utilOut.value # <<>>

C19_Witness ==
    /\ UtilCalled("toHebrewNumeral")
    /\ utilIn.num = 0
    /\ IsError(utilOut)

\* the five final forms; each stands one code unit before its base letter
FinalForms == {1498, 1501, 1503, 1507, 1509}
IsHebrewLetter(c) == c \in 1488..1514
BaseLetterOf(c) == IF c \in FinalForms THEN c + 1 ELSE c

\* the traditional value of a letter by its place in the alphabet: 1 to 9,
\* 10 to 90, 100 to 400
PlaceOf(c) == Cardinality({d \in 1488..BaseLetterOf(c) : d \notin FinalForms})
TraditionalValue(c) ==
    IF PlaceOf(c) <= 9 THEN PlaceOf(c)
    ELSE IF PlaceOf(c) <= 18 THEN (PlaceOf(c) - 9) * 10
    ELSE (PlaceOf(c) - 18) * 100

RECURSIVE SumOfLetters(_)
SumOfLetters(text) ==
    IF text = <<>> THEN 0
    ELSE (IF IsHebrewLetter(Head(text)) THEN TraditionalValue(Head(text)) ELSE 0)
         + SumOfLetters(Tail(text))

HebrewLettersOf(text) == SelectSeq(text, IsHebrewLetter)

\* C20: for every text with a Hebrew letter, the standard value is the sum of the
\* traditional values of its Hebrew letters, a final form counting as its base
\* letter, and equals the value of the text with every other character removed.
C20_StandardGematria ==
    (UtilCalled("calculateGematria") /\ utilIn.method = "standard"
        /\ HebrewLettersOf(utilIn.text) # <<>>)
        => /\ ~IsError(utilOut)
           /\ utilOut.value.value = SumOfLetters(utilIn.text)
           /\ utilOut.value.value =
                calculateGematria(HebrewLettersOf(utilIn.text), "standard").value.value

C20_Witness ==
    /\ UtilCalled("calculateGematria")
    /\ utilIn.method = "standard"
    /\ utilIn.text = <<1497, 1464, 1498>>
    /\ ~IsError(utilOut)
    /\ utilOut.value.value = 30

----------------------------------------------------------------------------
(* Gematria methods and the multiplier table: C21 to C23, C27 *)

\* the repeated digit sum of a positive number
DigitalRoot(n) == 1 + ((n - 1) % 9)

\* the value a final form takes as the last letter: 500 for final kaf up to 900
\* for final tsadi
ElevatedValue(c) == 500 + 100 * Cardinality({f \in FinalForms : f < c})

RECURSIVE SumOfPlaces(_)
SumOfPlaces(letters) ==
    IF letters = <<>> THEN 0 ELSE PlaceOf(Head(letters)) + SumOfPlaces(Tail(letters))

RECURSIVE SumOfRoots(_)
SumOfRoots(letters) ==
    IF letters = <<>> THEN 0
    ELSE DigitalRoot(TraditionalValue(Head(letters))) + SumOfRoots(Tail(letters))

\* the standard sum with a final form in the last place at its elevated value
LargeSum(letters) ==
    IF letters[Len(letters)] \in FinalForms
    THEN SumOfLetters(SubSeq(letters, 1, Len(letters) - 1))
            + ElevatedValue(letters[Len(letters)])
    ELSE SumOfLetters(letters)

DefinedValue(letters, method) ==
    CASE method = "large" -> LargeSum(letters)
      [] method = "small" -> SumOfRoots(letters)
      [] method = "ordinal" -> SumOfPlaces(letters)
      [] method = "reduced" -> DigitalRoot(SumOfLetters(letters))

\* C21: for every text with a Hebrew letter, large is the standard sum with a final
\* form that ends the cleaned text counted 500 to 900, small is the sum of the
\* letters' values each reduced to one digit, ordinal is the sum of the letters'
\* places in the alphabet (a final form at the place of its base letter), and
\* reduced is the repeated digit sum of the standard value and lies in 1..9.
C21_AlternativeMethods ==
    (UtilCalled("calculateGematria")
        /\ utilIn.method \in {"large", "small", "ordinal", "reduced"}
        /\ HebrewLettersOf(utilIn.text) # <<>>)
        => /\ ~IsError(utilOut)
           /\ utilOut.value.value = DefinedValue(HebrewLettersOf(utilIn.text), utilIn.method)
           /\ utilIn.method = "reduced" => utilOut.value.value \in 1..9

C21_Witness ==
    /\ UtilCalled("calculateGematria")
    /\ utilIn.method = "large"
    /\ utilIn.text = <<1498, 1488, 1498>>
    /\ ~IsError(utilOut)
    /\ utilOut.value.value = 521

\* C22: by each of the five methods, calculateGematria fails with the error that
\* no Hebrew letters were found exactly when the text has no Hebrew letter, and
\* returns a calculation with a value of at least 1 for every other text.
C22_NoHebrewLetters ==
    (UtilCalled("calculateGematria") /\ utilIn.method \in GematriaMethods)
        => IF HebrewLettersOf(utilIn.text) = <<>>
           THEN /\ IsError(utilOut)
                /\ utilOut.message =
                     "Gematria calculation failed: No Hebrew letters found in input text"
           ELSE /\ ~IsError(utilOut)
                /\ utilOut.value.value >= 1

C22_Witness ==
    /\ UtilCalled("calculateGematria")
    /\ utilIn.method = "ordinal"
    /\ utilIn.text = <<97, 1464, 1522>>
    /\ IsError(utilOut)

\* a call of the sequence has returned
GematriaReturned(fn) == WasCalled(utilIn) /\ utilIn.fn = fn

\* the places of the suggestions made from a table entry
SuggestionsOf(m) ==
    {j \in DOMAIN utilOut.value : utilOut.value[j].nameEnglish = m.nameEnglish}

C27_TableReadOnly ==
    /\ Len(multipliers) = Len(COMMON_MULTIPLIERS)
    /\ \A i \in DOMAIN COMMON_MULTIPLIERS : multipliers[i] = COMMON_MULTIPLIERS[i]

C27_Witness ==
    /\ gematriaCalls = MaxGematriaCalls
    /\ GematriaReturned("getSuggestedMultipliers")
    /\ utilIn.baseAmount = -1
    /\ utilOut.value[1].nameEnglish = "Bracha"
    /\ multipliers[1].nameEnglish = "Chai"

----------------------------------------------------------------------------
(* Construction, configuration updates and cache entries: C24, C26, C28 to C30 *)

\* a Location with every field in its range
AcceptableLocation(loc) ==
    /\ ~IsMissing(loc)
    /\ loc.latitude >= -900000 /\ loc.latitude <= 900000
    /\ loc.longitude >= -1800000 /\ loc.longitude <= 1800000
    /\ loc.timezone # ""

\* C24: construction throws when the default location is missing, its latitude is
\* outside [-90, 90], its longitude is outside [-180, 180] or its timezone is not
\* set, and succeeds for every other Location, latitude 0 and longitude 0 included.
C24_ConstructionValidates ==
    (lastCall.op = "constructor" /\ WasCalled(lastRet))
        => (IsError(lastRet) <=> ~AcceptableLocation(lastCall.config.defaultLocation))

\* a step that is a public call
IsCall == ncalls' = ncalls + 1

\* the facade operations that return the cached value itself
DirectOps == {"gregorianToHebrew", "hebrewToGregorian", "getEnhancedDate", "getZmanim"}

\* C26: whatever the order of facade calls and expiry callbacks, a cache entry is
\* written only when its key is absent, an entry that stays in the cache keeps its
\* value, and a call answered from the cache returns the value stored under its key.
C26_EntriesImmutable ==
    [][/\ \A k \in DOMAIN cache \cap DOMAIN cache' : cache'[k] = cache[k]
       /\ \A tm \in timers' \ timers : tm.key \notin DOMAIN cache
       /\ IsCall =>
            \A h \in lastHit' :
                /\ h.key \in DOMAIN cache
                /\ lastCall'.op \in DirectOps => lastRet' = [value |-> cache[h.key].value]]_vars

\* a second getZmanim of the day was answered from the cache
C26_Witness ==
    /\ ncalls = 2
    /\ lastCall.op = "getZmanim"
    /\ lastHit # {}
    /\ ~IsError(lastRet)
    /\ DOMAIN cache # {}

\* C28: when updateConfig throws, the configuration and the cache are as they
\* were before the call.
C28_UpdateConfigAtomic ==
    [][(IsCall /\ lastCall'.op = "updateConfig" /\ IsError(lastRet'))
            => (config' = config /\ cache' = cache)]_vars

\* C29: an expiry callback removes an entry only when the entry has been cached
\* for the whole cacheTTL; before that only clearCache or disabling the cache
\* removes it.
C29_FullTTL ==
    [][~IsCall =>
            \A k \in DOMAIN cache \ DOMAIN cache' :
                now - cache[k].written >= config.cacheTTL]_vars

\* the instants of Dates that fall on a Saturday
SaturdayDates == {480, 1200}

====
